---- MODULE Spec2Model ----
(***************************************************************************)
(* Model of the Anyway Encosure Scheme codec (src/lib/anyway.rs).          *)
(*                                                                         *)
(* A Rust &str / String is modelled as the sequence of its UTF-8 bytes     *)
(* (naturals 0..255), a byte slice as a sequence of naturals 0..255.       *)
(* Rust indices are 0-based: At(data, i) reads data[i].                    *)
(*                                                                         *)
(* encode_escape, check_separator and the string primitives they use are   *)
(* operators; decode is a state machine with one action per kind of        *)
(* iteration of its outer `while idx < data.len()` loop.                   *)
(***************************************************************************)
EXTENDS Integers, Sequences, FiniteSets, TLC

(***************************************************************************)
(* Bounds of the explored inputs.                                          *)
(***************************************************************************)
\* longest byte sequence drawn from SampleBytes that is encoded
MaxBytes == 2
\* most chunks a raw text handed to decode is made of
MaxChunks == 2

(***************************************************************************)
(* Characters and integer widths of the program.                           *)
(***************************************************************************)
\* b'*'
Star == 42
\* b'\\'
Backslash == 92
\* the match arm `96..` : letters from here on are lowercase
LowerFrom == 96
\* b'a' - b'A', the `32 *` of line[i]
CaseStep == 32
\* body_idx == 6 completes a unit
WordLen == 6
\* largest value of a u8
U8Max == 255
\* 0b11
TailMask == 3
\* 0b11111100
BodyMask == 252

\* 'a' | 'n' | 'y' | 'w' | 'A' | 'N' | 'Y' | 'W' | '*' | '\\'
Alphabet == {97, 110, 121, 119, 65, 78, 89, 87, 42, 92}

\* ", "
DefaultSeparator == <<44, 32>>

\* 2^n
RECURSIVE Pow2(_)
Pow2(n) == IF n = 0 THEN 1 ELSE 2 * Pow2(n - 1)

\* a & b on u8
RECURSIVE BitAndW(_, _, _)
BitAndW(a, b, w) ==
    IF w = 0 THEN 0
    ELSE (IF a % 2 = 1 /\ b % 2 = 1 THEN 1 ELSE 0)
         + 2 * BitAndW(a \div 2, b \div 2, w - 1)

BitAnd(a, b) == BitAndW(a, b, 8)

\* a >> n on u8
Shr(a, n) == a \div Pow2(n)

\* a << n on u8: the bits shifted out are lost, no overflow check
Shl(a, n) == (a * Pow2(n)) % (U8Max + 1)

\* data[i], 0-based
At(data, i) == data[i + 1]

(***************************************************************************)
(* UTF-8 strings: str::chars, str::len, String::pop.                       *)
(***************************************************************************)
\* a continuation byte 10xxxxxx of a multi-byte character
IsContinuation(b) == b >= 128 /\ b < 192

\* number of bytes of the character a lead byte starts
CharWidth(lead) ==
    IF lead < 128 THEN 1 ELSE IF lead < 224 THEN 2 ELSE IF lead < 240 THEN 3 ELSE 4

\* the code point of the character of width w starting at s[i] (1-based)
CodePoint(s, i, w) ==
    CASE w = 1 -> s[i]
      [] w = 2 -> (s[i] - 192) * 64 + (s[i + 1] - 128)
      [] w = 3 -> (s[i] - 224) * 4096 + (s[i + 1] - 128) * 64 + (s[i + 2] - 128)
      [] OTHER -> (s[i] - 240) * 262144 + (s[i + 1] - 128) * 4096
                  + (s[i + 2] - 128) * 64 + (s[i + 3] - 128)

\* separator.chars(): the code points of a string
RECURSIVE CharsFrom(_, _)
CharsFrom(s, i) ==
    IF i > Len(s) THEN <<>>
    ELSE LET w == CharWidth(s[i])
         IN  <<CodePoint(s, i, w)>> \o CharsFrom(s, i + w)

Chars(s) == CharsFrom(s, 1)

\* String::pop: removes the last character (all of its bytes); no-op when empty
RECURSIVE Pop(_)
Pop(s) ==
    IF Len(s) = 0 THEN s
    ELSE LET init == SubSeq(s, 1, Len(s) - 1)
         IN  IF IsContinuation(s[Len(s)]) THEN Pop(init) ELSE init

\* for _ in 0..n { ret.pop(); }
RECURSIVE PopTimes(_, _)
PopTimes(s, n) == IF n = 0 THEN s ELSE PopTimes(Pop(s), n - 1)

(***************************************************************************)
(* check_separator and encode_escape.                                      *)
(***************************************************************************)
\* faulty variant: the `separator.is_empty()` test is missing
check_separator_no_empty_test(separator) ==
    \A k \in DOMAIN Chars(separator) : Chars(separator)[k] \notin Alphabet

\* check_separator(separator)
check_separator(separator) ==
    IF Len(separator) = 0 THEN FALSE
    ELSE \A k \in DOMAIN Chars(separator) : Chars(separator)[k] \notin Alphabet

\* faulty variant: the separator is used without the check
EffectiveSeparatorUnchecked(separator) == separator

\* let separator = match check_separator(separator) { true => separator, false => ", " }
EffectiveSeparator(separator) ==
    IF check_separator(separator) THEN separator ELSE DefaultSeparator

\* let tail = val & 0b11
TailBits(val) == BitAnd(val, TailMask)

\* let body = (val & 0b11111100) >> 2
BodyBits(val) == Shr(BitAnd(val, BodyMask), 2)

\* fix: "", "*", "**", "***"
Fix(tail) ==
    CASE tail = 0 -> <<>>
      [] tail = 1 -> <<Star>>
      [] tail = 2 -> <<Star, Star>>
      [] tail = 3 -> <<Star, Star, Star>>

\* fix2: "", "\\*", "\\*\\*", "\\*\\*\\*"
Fix2(tail) ==
    CASE tail = 0 -> <<>>
      [] tail = 1 -> <<Backslash, Star>>
      [] tail = 2 -> <<Backslash, Star, Backslash, Star>>
      [] tail = 3 -> <<Backslash, Star, Backslash, Star, Backslash, Star>>

\* faulty variant: line[4] takes its case from bit 3 of body instead of bit 4
LineWrongShift(body) ==
    << 65 + (CaseStep * BitAnd(body, 1)),
       78 + (CaseStep * BitAnd(Shr(body, 1), 1)),
       89 + (CaseStep * BitAnd(Shr(body, 2), 1)),
       87 + (CaseStep * BitAnd(Shr(body, 3), 1)),
       65 + (CaseStep * BitAnd(Shr(body, 3), 1)),
       89 + (CaseStep * BitAnd(Shr(body, 5), 1)) >>

\* line[0..6]: b'A' + (32 * (body & 1)), b'N' + (32 * ((body >> 1) & 1)), ...
Line(body) ==
    << 65 + (CaseStep * BitAnd(body, 1)),
       78 + (CaseStep * BitAnd(Shr(body, 1), 1)),
       89 + (CaseStep * BitAnd(Shr(body, 2), 1)),
       87 + (CaseStep * BitAnd(Shr(body, 3), 1)),
       65 + (CaseStep * BitAnd(Shr(body, 4), 1)),
       89 + (CaseStep * BitAnd(Shr(body, 5), 1)) >>

\* what one iteration of `for val in data` pushes before the separator
Unit(val, escape) ==
    IF escape
    THEN Fix2(TailBits(val)) \o Fix(TailBits(val)) \o Line(BodyBits(val))
         \o Fix(TailBits(val)) \o Fix2(TailBits(val))
    ELSE Fix(TailBits(val)) \o Line(BodyBits(val)) \o Fix(TailBits(val))

\* the `for val in data` loop from element k (1-based) on, appending to ret
RECURSIVE PushUnits(_, _, _, _, _)
PushUnits(ret0, data, k, sep, escape) ==
    IF k > Len(data) THEN ret0
    ELSE PushUnits(ret0 \o Unit(data[k], escape) \o sep, data, k + 1, sep, escape)

\* for _ in 0..separator.len() { ret.pop(); } : separator.len() counts bytes
StripLast(ret0, sep) == PopTimes(ret0, Len(sep))

\* encode_escape(input, separator, escape)
encode_escape(data, separator, escape) ==
    LET sep == EffectiveSeparator(separator)
    IN  StripLast(PushUnits(<<>>, data, 1, sep, escape), sep)

\* encode(input, separator)
encode(data, separator) == encode_escape(data, separator, FALSE)

\* encode_escaped(input, separator)
encode_escaped(data, separator) == encode_escape(data, separator, TRUE)

(***************************************************************************)
(* decode: one outer iteration as a function of the loop state.            *)
(* A loop state is [idx, body_idx, body, stars, ret, pc]; pc is "loop"     *)
(* while the scan runs, "done" once ret is returned, "panic" when an       *)
(* arithmetic overflow or an out-of-range index aborts the call.           *)
(* checks is the build's overflow-checks setting: with it a u8 `+=` that   *)
(* overflows panics, without it the value wraps.                           *)
(***************************************************************************)
\* the index a `while idx < data.len() && stay(data[idx]) { idx += 1 }` loop
\* started at i ends with: the first j >= i that is data.len() or whose
\* character is not in Stay (i itself when i is already past the end)
SkipWhile(data, i, Stay) ==
    IF ~(i < Len(data)) THEN i
    ELSE CHOOSE j \in i..Len(data) :
            /\ j = Len(data) \/ At(data, j) \notin Stay
            /\ \A k \in i..(j - 1) : At(data, k) \in Stay

\* while idx < data.len() && !matches!(data[idx], alphabet) { idx += 1 }
SkipNoise(data, i) == SkipWhile(data, i, (0..U8Max) \ Alphabet)

\* while idx < data.len() && matches!(data[idx], alphabet) { idx += 1 }
SkipAlphabet(data, i) == SkipWhile(data, i, Alphabet)

\* a + b on u8: the wrapped value and whether the addition overflowed
AddU8(a, b) == [v |-> (a + b) % (U8Max + 1), overflow |-> a + b > U8Max]

\* the arms `b'*'`, `96..` and `..=95` of `match val`
MatchArm(val, s) ==
    IF val = Star
    THEN [body_idx |-> s.body_idx, body |-> s.body,
          stars |-> AddU8(s.stars, 1).v,
          overflow |-> AddU8(s.stars, 1).overflow]
    ELSE IF val >= LowerFrom
    THEN [body_idx |-> AddU8(s.body_idx, 1).v,
          body |-> AddU8(s.body, Shl(1, s.body_idx)).v,
          stars |-> s.stars,
          overflow |-> AddU8(s.body, Shl(1, s.body_idx)).overflow
                       \/ AddU8(s.body_idx, 1).overflow]
    ELSE [body_idx |-> AddU8(s.body_idx, 1).v, body |-> s.body,
          stars |-> s.stars,
          overflow |-> AddU8(s.body_idx, 1).overflow]

\* faulty variant: `stars = 0` is missing after the push
FinishUnitKeepStars(data, s, m, i, checks) ==
    LET stars4 == m.stars % 4
        value  == AddU8(Shl(m.body, 2), stars4)
    IN  IF value.overflow /\ checks
        THEN [s EXCEPT !.idx = i, !.body_idx = 0, !.body = m.body,
                       !.stars = stars4, !.pc = "panic"]
        ELSE [idx |-> SkipAlphabet(data, i), body_idx |-> 0, body |-> 0,
              stars |-> stars4, ret |-> Append(s.ret, value.v), pc |-> "loop"]

\* the `if body_idx == 6 { ... continue; }` block, entered at index i
FinishUnit(data, s, m, i, checks) ==
    LET stars4 == m.stars % 4
        value  == AddU8(Shl(m.body, 2), stars4)
    IN  IF value.overflow /\ checks
        THEN [s EXCEPT !.idx = i, !.body_idx = 0, !.body = m.body,
                       !.stars = stars4, !.pc = "panic"]
        ELSE [idx |-> SkipAlphabet(data, i), body_idx |-> 0, body |-> 0,
              stars |-> 0, ret |-> Append(s.ret, value.v), pc |-> "loop"]

\* one pass through the body of `while idx < data.len()`, or its exit
ScanStep(data, s, checks) ==
    IF ~(s.idx < Len(data)) THEN [s EXCEPT !.pc = "done"]
    ELSE LET i == SkipNoise(data, s.idx)
         IN  IF i = Len(data) THEN [s EXCEPT !.idx = i, !.pc = "done"]
             ELSE IF ~(i < Len(data)) THEN [s EXCEPT !.idx = i, !.pc = "panic"]
             ELSE IF At(data, i) = Backslash THEN [s EXCEPT !.idx = i + 2]
             ELSE LET m == MatchArm(At(data, i), s)
                  IN  IF m.overflow /\ checks
                      THEN [s EXCEPT !.idx = i, !.pc = "panic"]
                      ELSE IF m.body_idx = WordLen
                      THEN FinishUnit(data, s, m, i, checks)
                      ELSE [s EXCEPT !.idx = i + 1, !.body_idx = m.body_idx,
                                     !.body = m.body, !.stars = m.stars]

\* the loop state decode starts from
ScanInit == [idx |-> 0, body_idx |-> 0, body |-> 0, stars |-> 0,
             ret |-> <<>>, pc |-> "loop"]

\* the scan run to its end
RECURSIVE ScanFrom(_, _, _)
ScanFrom(data, s, checks) ==
    IF s.pc # "loop" THEN s ELSE ScanFrom(data, ScanStep(data, s, checks), checks)

\* decode(text): the returned vector, or "panic" when the call aborts
decode(data, checks) ==
    LET s == ScanFrom(data, ScanInit, checks)
    IN  IF s.pc = "done" THEN s.ret ELSE "panic"

(***************************************************************************)
(* The explored inputs.                                                    *)
(***************************************************************************)
\* all sequences over S of length 0..n
SeqsUpTo(S, n) == UNION {[1..k -> S] : k \in 0..n}

\* the concatenation of a sequence of sequences
RECURSIVE Concat(_)
Concat(ss) == IF Len(ss) = 0 THEN <<>> ELSE Head(ss) \o Concat(Tail(ss))

\* a byte with tail 0 and one with tail 1 ('A'), used for the longer inputs
SampleBytes == {0, 65}

\* every single byte
UnitInputs == {<<v>> : v \in 0..U8Max}

\* the sequences over SampleBytes up to MaxBytes, the empty one included
SampleInputs == SeqsUpTo(SampleBytes, MaxBytes)

\* "", ", ", "\n", "a", "-*", "\\", U+00E9 (2 bytes), U+20AC (3 bytes)
Separators ==
    { <<>>, <<44, 32>>, <<10>>, <<97>>, <<45, Star>>, <<Backslash>>,
      <<195, 169>>, <<226, 130, 172>> }

\* a character outside the alphabet: ' '
NoiseChars == {32}

\* one-character separators made of an alphabet character, and " n"
ReservedSeparators == {<<c>> : c \in Alphabet} \cup {<<32, 110>>}

\* the pieces raw texts are made of: "*", "\\", "a", " ", "ANYWA", 255 stars
Chunks ==
    { <<Star>>, <<Backslash>>, <<97>>, <<32>>, <<65, 78, 89, 87, 65>>,
      [k \in 1..U8Max |-> Star] }

RawTexts == {Concat(cs) : cs \in SeqsUpTo(Chunks, MaxChunks)}

(***************************************************************************)
(* State.                                                                  *)
(***************************************************************************)
VARIABLES
    input,       \* the bytes given to encode_escape
    separator,   \* the separator given to encode_escape
    escape,      \* the marker style given to encode_escape
    encoded,     \* TRUE when text comes from encode_escape, FALSE when typed
    noisy,       \* TRUE once a noise character was inserted into text
    profile,     \* "dev" (overflow-checks), "release" (wrapping), or "any"
                 \* while no overflow has made the difference yet
    text,        \* the string handed to decode
    idx, body_idx, body, stars, ret,   \* decode's locals
    pc,          \* "start", "text", "loop", "done", "panic"
    iters,       \* entries into the body of decode's outer loop so far
    last_idx     \* idx at the previous entry into the loop body, -1 before

vars == <<input, separator, escape, encoded, noisy, profile, text,
          idx, body_idx, body, stars, ret, pc, iters, last_idx>>

io == <<input, separator, escape, encoded>>
locals == <<idx, body_idx, body, stars, ret, iters, last_idx>>

\* the caller encodes the bytes it holds
InitEncode ==
    /\ \/ input \in UnitInputs /\ separator \in Separators
       \/ input \in SampleInputs
          /\ separator \in Separators \cup ReservedSeparators
    /\ escape \in BOOLEAN
    /\ encoded = TRUE
    /\ text = <<>>
    /\ pc = "start"

\* the caller decodes a text it was given
InitDecode ==
    /\ input = <<>>
    /\ separator = DefaultSeparator
    /\ escape = FALSE
    /\ encoded = FALSE
    /\ text \in RawTexts
    /\ pc = "text"

Init ==
    /\ InitEncode \/ InitDecode
    /\ noisy = FALSE
    /\ profile = "any"
    /\ idx = 0 /\ body_idx = 0 /\ body = 0 /\ stars = 0 /\ ret = <<>>
    /\ iters = 0 /\ last_idx = -1

\* encode_escape(input, separator, escape)
Encode ==
    /\ pc = "start"
    /\ text' = encode_escape(input, separator, escape)
    /\ pc' = "text"
    /\ UNCHANGED <<io, noisy, profile, locals>>

\* s with character c inserted before position p (0-based)
InsertAt(s, p, c) == SubSeq(s, 1, p) \o <<c>> \o SubSeq(s, p + 1, Len(s))

\* a character outside the alphabet gets into an encoded text
InsertNoise ==
    /\ pc = "text" /\ encoded /\ ~noisy
    /\ input \in SampleInputs /\ check_separator(separator)
    /\ \E p \in 0..Len(text), c \in NoiseChars : text' = InsertAt(text, p, c)
    /\ noisy' = TRUE
    /\ UNCHANGED <<io, profile, locals, pc>>

\* decode(text) is called
CallDecode ==
    /\ pc = "text"
    /\ pc' = "loop"
    /\ idx' = ScanInit.idx /\ body_idx' = ScanInit.body_idx
    /\ body' = ScanInit.body /\ stars' = ScanInit.stars /\ ret' = ScanInit.ret
    /\ UNCHANGED <<io, noisy, profile, text, iters, last_idx>>

\* decode's locals as a loop state
Cur == [idx |-> idx, body_idx |-> body_idx, body |-> body, stars |-> stars,
        ret |-> ret, pc |-> pc]

\* the loop state after this iteration under either build
StepChecked == ScanStep(text, Cur, TRUE)
StepWrapping == ScanStep(text, Cur, FALSE)

\* the iteration overflows a u8
Overflows == StepChecked # StepWrapping

\* the character the iteration's match looks at
Val == At(text, SkipNoise(text, idx))

Apply(s) ==
    /\ idx' = s.idx /\ body_idx' = s.body_idx /\ body' = s.body
    /\ stars' = s.stars /\ ret' = s.ret /\ pc' = s.pc
    /\ UNCHANGED <<io, noisy, text>>

EnterBody ==
    /\ iters' = iters + 1
    /\ last_idx' = idx

\* `while idx < data.len()` is false: ret is returned
Exit ==
    /\ pc = "loop" /\ ~(idx < Len(text))
    /\ Apply(StepWrapping)
    /\ UNCHANGED <<profile, iters, last_idx>>

\* only characters outside the alphabet are left: break
Break ==
    /\ pc = "loop" /\ idx < Len(text) /\ SkipNoise(text, idx) = Len(text)
    /\ Apply(StepWrapping) /\ EnterBody
    /\ UNCHANGED profile

InBody == pc = "loop" /\ idx < Len(text) /\ SkipNoise(text, idx) < Len(text)

\* b'\\' => { idx += 2; continue; }
SkipEscape ==
    /\ InBody /\ Val = Backslash
    /\ Apply(StepWrapping) /\ EnterBody
    /\ UNCHANGED profile

\* b'*' => stars += 1
CountStar ==
    /\ InBody /\ Val = Star /\ ~Overflows
    /\ Apply(StepWrapping) /\ EnterBody
    /\ UNCHANGED profile

\* a letter that is not the sixth of its unit
ReadLetter ==
    /\ InBody /\ Val \notin {Backslash, Star} /\ ~Overflows
    /\ StepWrapping.ret = ret
    /\ Apply(StepWrapping) /\ EnterBody
    /\ UNCHANGED profile

\* the sixth letter: the byte is pushed and the unit's rest is skipped
CompleteUnit ==
    /\ InBody /\ Val \notin {Backslash, Star} /\ ~Overflows
    /\ StepWrapping.ret # ret
    /\ Apply(StepWrapping) /\ EnterBody
    /\ UNCHANGED profile

\* a u8 addition overflows in a build with overflow checks: panic
OverflowPanic ==
    /\ InBody /\ Overflows /\ profile \in {"any", "dev"}
    /\ Apply(StepChecked) /\ EnterBody
    /\ profile' = "dev"

\* a u8 addition overflows in a build without overflow checks: it wraps
OverflowWrap ==
    /\ InBody /\ Overflows /\ profile \in {"any", "release"}
    /\ Apply(StepWrapping) /\ EnterBody
    /\ profile' = "release"

Next ==
    \/ Encode
    \/ InsertNoise
    \/ CallDecode
    \/ Exit
    \/ Break
    \/ SkipEscape
    \/ CountStar
    \/ ReadLetter
    \/ CompleteUnit
    \/ OverflowPanic
    \/ OverflowWrap

Spec == Init /\ [][Next]_vars

(***************************************************************************)
(* What the specification says, stated without the program's operators.    *)
(***************************************************************************)
\* n copies of the sequence s
RECURSIVE Rep(_, _)
Rep(s, n) == IF n = 0 THEN <<>> ELSE s \o Rep(s, n - 1)

\* bit k of the byte v
Bit(v, k) == (v \div Pow2(k)) % 2

\* "ANYWAY"
Word == <<65, 78, 89, 87, 65, 89>>

\* the word unit of the byte v: letter i (0..5) lowercase iff bit i+2 of v is 1,
\* v mod 4 markers on each side, and as many backslash-star pairs around them
\* in the escaped style
ExpectedUnit(v, esc) ==
    LET t == v % 4
        letters == [i \in 1..6 |-> IF Bit(v, i + 1) = 1 THEN Word[i] + 32 ELSE Word[i]]
        plain == Rep(<<42>>, t) \o letters \o Rep(<<42>>, t)
    IN  IF esc THEN Rep(<<92, 42>>, t) \o plain \o Rep(<<92, 42>>, t) ELSE plain

\* the units of data[k..] with sep between consecutive units
RECURSIVE JoinedFrom(_, _, _, _)
JoinedFrom(data, k, sep, esc) ==
    IF k > Len(data) THEN <<>>
    ELSE IF k = Len(data) THEN Unit(data[k], esc)
    ELSE Unit(data[k], esc) \o sep \o JoinedFrom(data, k + 1, sep, esc)

\* a string without any byte of a, n, y, w, A, N, Y, W, *, backslash
FreeOfReserved(s) ==
    \A k \in DOMAIN s :
        s[k] \notin {97, 110, 121, 119, 65, 78, 89, 87, 42, 92}

\* every character of s is a single byte
IsAscii(s) == \A k \in DOMAIN s : s[k] < 128

\* encode_escape has returned and its output is untouched
Encoded == pc = "text" /\ encoded /\ ~noisy

\* decode has returned
Decoded == pc = "done"

(***************************************************************************)
(* Claims.                                                                 *)
(***************************************************************************)
\* C1: round trip. For every byte sequence and every separator that
\* check_separator accepts, multi-byte ones included, decoding the plain or
\* the escaped encoding gives the bytes back.
C1_RoundTrip ==
    (Decoded /\ encoded /\ ~noisy /\ check_separator(separator)) => ret = input

\* C2: noise tolerance. Characters outside the alphabet inserted anywhere in
\* an encoding do not change what it decodes to. (Stated here for the
\* single-byte-character separators, where the clean encoding decodes to
\* the input.)
C2_NoiseTolerance ==
    (Decoded /\ encoded /\ noisy /\ check_separator(separator)
        /\ IsAscii(separator))
    => ret = input

\* C3: decode never crashes. No u8 addition of decode overflows and no index
\* is out of range, whatever the text: the call never panics and no
\* accumulator ever wraps.
C3_DecodeNeverCrashes == pc # "panic" /\ profile = "any"

\* C4: escape tolerance. For every byte sequence and every separator, the
\* escaped encoding decodes to the same bytes as the plain encoding.
C4_EscapeTolerance ==
    Encoded =>
        decode(encode_escaped(input, separator), TRUE)
            = decode(encode(input, separator), TRUE)

\* C5: joining. The output of encode_escape is the word units of the bytes
\* with the effective separator between consecutive units, nothing after
\* the last unit, the last unit intact, and is empty for the empty input.
C5_Joining ==
    Encoded => text = JoinedFrom(input, 1, EffectiveSeparator(separator), escape)

\* C6: word unit format. What encode_escape pushes for a byte v before the
\* separator is v mod 4 stars, the six letters A N Y W A Y with letter i
\* lowercase iff bit i+2 of v is 1, v mod 4 stars, and in the escaped style
\* v mod 4 backslash-star pairs before and after that.
C6_UnitFormat ==
    (Encoded /\ Len(input) = 1) =>
        PushUnits(<<>>, input, 1, EffectiveSeparator(separator), escape)
            = ExpectedUnit(input[1], escape) \o EffectiveSeparator(separator)

\* C6 witness: 65 was encoded in the escaped style as \**ANYWaY*\*
C6_Witness ==
    /\ Encoded /\ input = <<65>> /\ escape
    /\ text = <<92, 42, 42, 65, 78, 89, 87, 97, 89, 42, 92, 42>>

\* C7: separator fallback. With a separator that check_separator rejects,
\* encode_escape returns what it returns with ", ".
C7_SeparatorFallback ==
    (Encoded /\ ~check_separator(separator)) =>
        text = encode_escape(input, <<44, 32>>, escape)

\* C7 witness: the bytes 0, 65 were encoded with the rejected separator "a"
\* as ANYWAY, *ANYWaY*
C7_Witness ==
    /\ Encoded /\ separator = <<97>> /\ input = <<0, 65>> /\ ~escape
    /\ text = <<65, 78, 89, 87, 65, 89, 44, 32, 42, 65, 78, 89, 87, 97, 89, 42>>

\* C8: check_separator(s) is true iff s is non-empty and has none of
\* a, n, y, w, A, N, Y, W, *, backslash.
C8_CheckSeparator ==
    check_separator(separator) <=> (Len(separator) > 0 /\ FreeOfReserved(separator))

\* C8 witness: the separator " n" was rejected and the bytes 0, 0 encoded
\* with ", " in its place
C8_Witness ==
    /\ Encoded /\ separator = <<32, 110>> /\ input = <<0, 0>> /\ ~escape
    /\ ~check_separator(separator)
    /\ text = <<65, 78, 89, 87, 65, 89, 44, 32, 65, 78, 89, 87, 65, 89>>

\* C9: decoder accumulators. At the head of every outer iteration body_idx
\* is in 0..5 and body < 2^body_idx; a byte is pushed exactly by the
\* iteration that reads the sixth letter, its value is (body << 2) +
\* (stars mod 4) within 0..255, and after that iteration body_idx, body and
\* stars are 0.
C9_HeadInv == pc = "loop" => (body_idx \in 0..5 /\ body < Pow2(body_idx))

C9_Push ==
    pc = "loop" =>
        LET sixth == InBody /\ Val \notin {42, 92} /\ body_idx = 5
            full  == body + (IF Val >= 97 THEN Pow2(body_idx) ELSE 0)
            value == full * 4 + (stars % 4)
        IN  /\ (ret' # ret) <=> sixth
            /\ sixth =>
                  /\ value \in 0..255
                  /\ ret' = Append(ret, value)
                  /\ body_idx' = 0 /\ body' = 0 /\ stars' = 0

C9_Accumulators == []C9_HeadInv /\ [][C9_Push]_vars

\* C9 witness: the byte 255 was pushed and the accumulators are back at 0
C9_Witness ==
    /\ pc = "loop" /\ ret = <<255>> /\ input = <<255>>
    /\ body_idx = 0 /\ body = 0 /\ stars = 0

\* C10: decode terminates. Every outer iteration strictly increases idx, so
\* there are at most len iterations, and the result is returned.
C10_DecodeTerminates ==
    /\ pc = "loop" => idx > last_idx
    /\ iters <= Len(text)
    /\ pc # "panic"

====
